---- MODULE Spec2Model ----
(***************************************************************************)
(* Model of abipy/electrons/ddk.py: DdkReader, DdkFile and DdksAnalyzer    *)
(* (construction from three DDK.nc files and get_doses), together with the *)
(* plotter API exercised by abipy/electrons/tests/test_ebands.py.          *)
(*                                                                         *)
(* A "path" is represented by the content of the netcdf file it names.     *)
(* Energies are integers (mesh units); k-point weights are integers in     *)
(* units of 1/WeightUnit.                                                  *)
(***************************************************************************)
EXTENDS Integers, Sequences, FiniteSets, TLC

VARIABLES
    pc,          \* "start", "constructed" (a DdksAnalyzer exists) or "failed"
    ddk_paths,   \* the argument of DdksAnalyzer.__init__
    ddks,        \* the list ddks: three references to DdkFile objects, or None
    errors,      \* the lines of the ValueError raised by __init__
    exc,         \* the exception the last call on the analyzer raised, or "none"
    analyzer,    \* reference to the constructed DdksAnalyzer (its dimensions)
    call,        \* the arguments of the last get_doses call
    result,      \* what the last get_doses call returned
    ddkfile,     \* a DdkFile opened on its own, and what opening it raised
    reader,      \* a DdkReader constructed on its own: nband_sk, exception, mband
    ebands_dict, \* ElectronBandsPlotter: the (label, ebands) entries, in order
    edos_dict,   \* ElectronDosPlotter: the (label, edos) entries, in order
    plot_call,   \* the last plotter call: which plotter, the label, the object
    plot_exc,    \* the exception the last plotter call raised, or "none"
    added        \* history: the labels each plotter accepted

vars == <<pc, ddk_paths, ddks, errors, exc, analyzer, call, result,
          ddkfile, reader, ebands_dict, edos_dict, plot_call, plot_exc, added>>

analyzer_vars == <<pc, ddk_paths, ddks, errors, exc, analyzer, call, result>>
plotter_vars == <<ebands_dict, edos_dict, plot_call, plot_exc, added>>

\* ------------------------------------------------------------------ bounds

\* Longest ddk_paths list given to DdksAnalyzer.
MaxPaths == 3
\* Largest pertcase of a file opened on its own with DdkFile.
MaxOpenPertcase == 24
\* Number of distinct labels offered to a plotter.
MaxLabels == 2
\* Largest number of k-points of a file read with DdkReader on its own.
MaxNkpt == 3
\* Largest band count in nband_sk of a file read with DdkReader on its own.
MaxNband == 3

\* Python's None, and a reference to an object: a list of at most one object.
None == <<>>
Ref(obj) == <<obj>>
Deref(ref) == ref[1]

\* ------------------------------------------------ content of a DDK.nc file

\* The attributes DdksAnalyzer compares, in the order it compares them.
CheckedAttrs == <<"structure", "kptopt", "kpoints", "nsppol", "nspden", "nspinor">>

\* Reference content (silicon on a homogeneous k-mesh, unpolarized).
RefNc == [structure |-> "Si2", kptopt |-> 1, kpoints |-> "kmesh",
          nsppol |-> 1, nspden |-> 1, nspinor |-> 1, bands |-> "uniform"]

\* The other value each attribute takes in the files of the model.
AltValue == [structure |-> "Ni1", kptopt |-> 2, kpoints |-> "kpath",
             nsppol |-> 2, nspden |-> 2, nspinor |-> 2, bands |-> "ragged"]

\* File contents: the reference, the reference with one attribute changed, and
\* the reference with every compared attribute changed.
NcContents ==
    {RefNc} \cup {[RefNc EXCEPT ![a] = AltValue[a]] : a \in DOMAIN RefNc}
            \cup {[AltValue EXCEPT !.bands = "uniform"]}

\* The three reduced directions.
NDirs == 3

Natom(structure) == IF structure = "Si2" THEN 2 ELSE 1

\* The files a DDK run writes: the perturbation after the natom atomic
\* displacements, along each direction.  A file is its content and the
\* pertcase it stores.
DdkRunFiles ==
    {[nc |-> c, pertcase |-> NDirs * Natom(c.structure) + d] : c \in NcContents, d \in 1..NDirs}

\* Files with any pertcase up to MaxOpenPertcase.
NcFiles == {[nc |-> c, pertcase |-> p] : c \in NcContents, p \in 1..MaxOpenPertcase}

\* Number of bands of every file of the model (mband when uniform).
MBand == 2

\* k-point lists: weights in units of 1/WeightUnit.
WeightUnit == 4

\* The weights of a k-point list: a homogeneous mesh has weights that sum to
\* one, a k-path has one unit weight per k-point.
Weights(kpoints) ==
    IF kpoints = "kmesh" THEN <<1, WeightUnit - 1>>
    ELSE <<WeightUnit, WeightUnit, WeightUnit>>

\* read_nband_sk: the (spin, k-point) matrix of band counts stored in the file.
read_nband_sk(f) ==
    [s \in 1..f.nc.nsppol, k \in 1..Len(Weights(f.nc.kpoints)) |->
        IF f.nc.bands = "ragged" /\ s = f.nc.nsppol /\ k = Len(Weights(f.nc.kpoints))
        THEN MBand - 1 ELSE MBand]

\* read_eigenvalues: eigens[spin, k, band], integers on the energy mesh.
Eigens(f) ==
    [s \in 1..f.nc.nsppol, k \in 1..Len(Weights(f.nc.kpoints)), b \in 1..MBand |->
        3 * (b - 1) + (k - 1) + (s - 1)]

\* ------------------------------------------------------------- DdkReader

\* Faulty variant: np.all in place of np.any.
DdkReaderInitAll(nband_sk) ==
    IF \A sk \in DOMAIN nband_sk : nband_sk[sk] # nband_sk[<<1, 1>>]
    THEN [exc |-> "NotImplementedError", mband |-> None]
    ELSE [exc |-> "none", mband |-> Ref(nband_sk[<<1, 1>>])]

\* DdkReader.__init__ on the nband_sk matrix read from the file: the exception
\* it raises and the mband it sets.
DdkReaderInit(nband_sk) ==
    IF \E sk \in DOMAIN nband_sk : nband_sk[sk] # nband_sk[<<1, 1>>]
    THEN [exc |-> "NotImplementedError", mband |-> None]
    ELSE [exc |-> "none", mband |-> Ref(nband_sk[<<1, 1>>])]

\* DdkReader.__init__: TRUE when it raises NotImplementedError.
DdkReaderRaises(f) == DdkReaderInit(read_nband_sk(f)).exc # "none"

\* ---------------------------------------------------------------- DdkFile

DdkIdir(pertcase) == ((pertcase - 1) % 3) + 1

\* Faulty variant: the direction is not subtracted before the division.
DdkIpertNoIdir(pertcase, idir) == (pertcase \div 3) + 1

DdkIpert(pertcase, idir) == ((pertcase - idir) \div 3) + 1

\* DdkFile.__init__ on a file whose reader opens: ebands is a lazy property,
\* not read yet.
DdkFileInit(f) ==
    LET idir == DdkIdir(f.pertcase)
    IN [nc |-> f.nc, pertcase |-> f.pertcase, kptopt |-> f.nc.kptopt,
        idir |-> idir, ipert |-> DdkIpert(f.pertcase, idir), ebands |-> FALSE]

\* The value of an attribute as the consistency check reads it.
Attr(ddk, a) == IF a = "kptopt" THEN ddk.kptopt ELSE ddk.nc[a]

\* ----------------------------------------------------------- DdksAnalyzer

\* Faulty variant: the files are stored in the order they are given.
RECURSIVE FillDdksInOrder(_, _, _)
FillDdksInOrder(paths, i, slots) ==
    IF i > Len(paths) THEN [ddks |-> slots, raised |-> FALSE]
    ELSE IF DdkReaderRaises(paths[i]) THEN [ddks |-> slots, raised |-> TRUE]
    ELSE FillDdksInOrder(paths, i + 1,
            IF i <= 3 THEN [slots EXCEPT ![i] = Ref(DdkFileInit(paths[i]))] ELSE slots)

\* The loop of DdksAnalyzer.__init__ over ddk_paths[i..]: the list ddks and
\* whether DdkFile(path) raised.
RECURSIVE FillDdks(_, _, _)
FillDdks(paths, i, slots) ==
    IF i > Len(paths) THEN [ddks |-> slots, raised |-> FALSE]
    ELSE IF DdkReaderRaises(paths[i]) THEN [ddks |-> slots, raised |-> TRUE]
    ELSE LET ddk == DdkFileInit(paths[i])
         IN FillDdks(paths, i + 1, [slots EXCEPT ![ddk.idir] = Ref(ddk)])

\* Faulty variant: only the second file is compared with the first.
AnyDiffersSecondOnly(slots, a) ==
    Attr(Deref(slots[2]), a) # Attr(Deref(slots[1]), a)

\* any(ddk.<a> != ddks[0].<a> for ddk in ddks[1:])
AnyDiffers(slots, a) ==
    \E i \in 2..3 : Attr(Deref(slots[i]), a) # Attr(Deref(slots[1]), a)

\* The files whose ebands the generator of AnyDiffers reads: any() stops at
\* the first difference; kptopt is an attribute of the file itself.
EbandsRead(slots, a) ==
    IF a = "kptopt" THEN {}
    ELSE IF Attr(Deref(slots[2]), a) # Attr(Deref(slots[1]), a) THEN {1, 2}
    ELSE {1, 2, 3}

ErrorLine(a) ==
    CASE a = "structure" -> "Structures in DDK files do not agree with each other."
      [] a = "kptopt" -> "Found different values of kptopt."
      [] a = "kpoints" -> "Found different list of k-kpoints."
      [] a = "nsppol" -> "Found different value of nsppol"
      [] a = "nspden" -> "Found different value of nspden"
      [] a = "nspinor" -> "Found different value of nspinor"

\* Faulty variant: the check stops at the first attribute that differs.
RECURSIVE ConsistencyErrorsFirstOnly(_, _)
ConsistencyErrorsFirstOnly(slots, n) ==
    IF n > Len(CheckedAttrs) THEN <<>>
    ELSE IF AnyDiffers(slots, CheckedAttrs[n]) THEN <<ErrorLine(CheckedAttrs[n])>>
    ELSE ConsistencyErrorsFirstOnly(slots, n + 1)

\* The errors list after the consistency check, in the order of the checks.
RECURSIVE ConsistencyErrors(_, _)
ConsistencyErrors(slots, n) ==
    IF n > Len(CheckedAttrs) THEN <<>>
    ELSE (IF AnyDiffers(slots, CheckedAttrs[n]) THEN <<ErrorLine(CheckedAttrs[n])>> ELSE <<>>)
         \o ConsistencyErrors(slots, n + 1)

MarkEbands(slots, read) ==
    [i \in 1..3 |-> Ref([Deref(slots[i]) EXCEPT !.ebands = (i \in read)])]

\* "Get useful dimensions."
Dimensions(eb0) ==
    [nsppol |-> eb0.nc.nsppol, nspinor |-> eb0.nc.nspinor, nspden |-> eb0.nc.nspden,
     nband |-> MBand, kpoints |-> eb0.nc.kpoints,
     nkpt |-> Len(Weights(eb0.nc.kpoints)), weights |-> Weights(eb0.nc.kpoints),
     eigens |-> Eigens(eb0)]

MissingIdir == "Cannot find 3 DDK files with different idir."

\* Faulty variant: the consistency check runs before the test for missing directions,
\* and reads an attribute of None.
AnalyzerInitCheckFirst(paths) ==
    LET fill == FillDdks(paths, 1, <<None, None, None>>)
        slots == fill.ddks
    IN IF fill.raised
       THEN [ddks |-> slots, exc |-> "NotImplementedError", errors |-> <<>>,
             analyzer |-> None]
       ELSE IF \E i \in 1..3 : slots[i] = None
       THEN [ddks |-> [i \in 1..3 |->
                         IF slots[i] = None \/ slots[1] = None THEN slots[i]
                         ELSE Ref([Deref(slots[i]) EXCEPT !.ebands = TRUE])],
             exc |-> "AttributeError", errors |-> <<>>, analyzer |-> None]
       ELSE LET errs == ConsistencyErrors(slots, 1)
                read == UNION {EbandsRead(slots, CheckedAttrs[n]) : n \in 1..Len(CheckedAttrs)}
                seen == MarkEbands(slots, read)
            IN IF errs # <<>>
               THEN [ddks |-> seen, exc |-> "ValueError", errors |-> errs,
                     analyzer |-> None]
               ELSE [ddks |-> seen, exc |-> "none", errors |-> <<>>,
                     analyzer |-> Ref(Dimensions(Deref(seen[1])))]

\* DdksAnalyzer.__init__(ddk_paths): the state it leaves.
AnalyzerInit(paths) ==
    LET fill == FillDdks(paths, 1, <<None, None, None>>)
        slots == fill.ddks
    IN IF fill.raised
       THEN [ddks |-> slots, exc |-> "NotImplementedError", errors |-> <<>>,
             analyzer |-> None]
       ELSE IF \E i \in 1..3 : slots[i] = None
       THEN [ddks |-> slots, exc |-> "ValueError", errors |-> <<MissingIdir>>,
             analyzer |-> None]
       ELSE LET errs == ConsistencyErrors(slots, 1)
                read == UNION {EbandsRead(slots, CheckedAttrs[n]) : n \in 1..Len(CheckedAttrs)}
                seen == MarkEbands(slots, read)
            IN IF errs # <<>>
               THEN [ddks |-> seen, exc |-> "ValueError", errors |-> errs,
                     analyzer |-> None]
               ELSE [ddks |-> seen, exc |-> "none", errors |-> <<>>,
                     analyzer |-> Ref(Dimensions(Deref(seen[1])))]

\* The lists of n files given as ddk_paths.
PathLists(n) == [1..n -> DdkRunFiles]

Construct ==
    /\ pc = "start"
    /\ \E n \in 0..MaxPaths : \E paths \in PathLists(n) :
         LET r == AnalyzerInit(paths)
         IN /\ ddk_paths' = paths
            /\ ddks' = r.ddks
            /\ exc' = r.exc
            /\ errors' = r.errors
            /\ analyzer' = r.analyzer
            /\ pc' = IF r.exc = "none" THEN "constructed" ELSE "failed"
    /\ UNCHANGED <<call, result, ddkfile, reader>>
    /\ UNCHANGED plotter_vars

\* -------------------------------------------------- DdksAnalyzer.get_doses

\* kpoints.check_weights(): TRUE when the weights are normalized to one.
RECURSIVE SumSeq(_)
SumSeq(q) == IF q = <<>> THEN 0 ELSE Head(q) + SumSeq(Tail(q))

check_weights(weights) == SumSeq(weights) = WeightUnit

\* abipy.tools.gaussian(x, width, center) in units of 1/100, for the widths of
\* the model; zero beyond three standard deviations.
GaussTable == <<  <<40, 24, 5, 0>>,  <<20, 18, 12, 6, 3, 1, 0>>  >>

Abs(x) == IF x < 0 THEN -x ELSE x

gaussian(x, width, center) ==
    LET d == Abs(x - center)
    IN IF d >= 3 * width THEN 0 ELSE GaussTable[width][d + 1]

\* The linear mesh of get_edos: from three widths below the lowest eigenvalue
\* to three widths above the highest one.
LinearMesh(eigens, step, width) ==
    LET vals == {eigens[skb] : skb \in DOMAIN eigens}
        e_min == (CHOOSE x \in vals : \A y \in vals : x <= y) - 3 * width
        e_max == (CHOOSE x \in vals : \A y \in vals : x >= y) + 3 * width
        nw == 1 + ((e_max - e_min) \div step)
    IN [i \in 1..nw |-> e_min + (i - 1) * step]

\* Sum of f[x] over the finite set dom.
RECURSIVE SumOver(_, _)
SumOver(f, dom) ==
    IF dom = {} THEN 0
    ELSE LET x == CHOOSE y \in dom : TRUE
         IN f[x] + SumOver(f, dom \ {x})

\* ElectronBands.get_edos on the bands of the first file: the exception it
\* raises, or the ElectronDos (per-spin values on the mesh, and their total).
get_edos(an, method, step, width) ==
    IF ~check_weights(an.weights) THEN [exc |-> "ValueError", edos |-> None]
    ELSE IF method # "gaussian" THEN [exc |-> "NotImplementedError", edos |-> None]
    ELSE LET mesh == LinearMesh(an.eigens, step, width)
             dos == [spin \in 1..an.nsppol |->
                        [i \in 1..Len(mesh) |->
                            SumOver([skb \in DOMAIN an.eigens |->
                                        IF skb[1] = spin
                                        THEN an.weights[skb[2]] * gaussian(mesh[i], width, an.eigens[skb])
                                        ELSE 0],
                                    DOMAIN an.eigens)]]
         IN [exc |-> "none",
             edos |-> Ref([mesh |-> mesh, spin_dos |-> dos,
                           tot_dos |-> [i \in 1..Len(mesh) |->
                               IF an.nsppol = 1 THEN 2 * dos[1][i]
                               ELSE dos[1][i] + dos[2][i]]])]

\* Faulty variant: the values array is allocated before get_edos is called.
get_dosesAllocFirst(an, method, step, width) ==
    IF ~check_weights(an.weights) THEN [exc |-> "ValueError", result |-> None]
    ELSE [exc |-> "NameError", result |-> None]

\* DdksAnalyzer.get_doses(method, step, width): the exception it raises and
\* what it returns.  The statement after get_edos reads the name nw, which
\* neither get_doses nor the module binds: it raises NameError, and the
\* statements after it are never reached.
get_doses(an, method, step, width) ==
    IF ~check_weights(an.weights) THEN [exc |-> "ValueError", result |-> None]
    ELSE LET edos == get_edos(an, method, step, width)
         IN IF edos.exc # "none" THEN [exc |-> edos.exc, result |-> None]
            ELSE [exc |-> "NameError", result |-> None]

Methods == {"gaussian", "tetrahedron"}
Steps == {1, 2}
Widths == {1, 2}

GetDoses ==
    /\ pc = "constructed"
    /\ \E method \in Methods, step \in Steps, width \in Widths :
         LET r == get_doses(Deref(analyzer), method, step, width)
         IN /\ call' = Ref([method |-> method, step |-> step, width |-> width])
            /\ exc' = r.exc
            /\ result' = r.result
    /\ UNCHANGED <<pc, ddk_paths, ddks, errors, analyzer, ddkfile, reader>>
    /\ UNCHANGED plotter_vars

\* ------------------------------------------------------ DdkFile on its own

OpenDdkFile ==
    /\ \E f \in NcFiles :
         ddkfile' = IF DdkReaderRaises(f)
                    THEN Ref([path |-> f, exc |-> "NotImplementedError", ddk |-> None])
                    ELSE Ref([path |-> f, exc |-> "none", ddk |-> Ref(DdkFileInit(f))])
    /\ UNCHANGED reader
    /\ UNCHANGED analyzer_vars
    /\ UNCHANGED plotter_vars

\* ---------------------------------------------------- DdkReader on its own

\* The nband_sk matrices of files with nsppol spins and nkpt k-points.
NbandSkMatrices(nsppol, nkpt) == [(1..nsppol) \X (1..nkpt) -> 1..MaxNband]

OpenDdkReader ==
    /\ reader = None
    /\ \E nsppol \in 1..2, nkpt \in 1..MaxNkpt :
         \E nband_sk \in NbandSkMatrices(nsppol, nkpt) :
            LET r == DdkReaderInit(nband_sk)
            IN reader' = Ref([nband_sk |-> nband_sk, exc |-> r.exc, mband |-> r.mband])
    /\ UNCHANGED ddkfile
    /\ UNCHANGED analyzer_vars
    /\ UNCHANGED plotter_vars

\* ---------------------------------------------------------------- plotters

Labels == 1..MaxLabels
PlotObjects == {"si_scf_GSR.nc", "si_nscf_GSR.nc"}

HasLabel(dict, label) == \E i \in DOMAIN dict : dict[i].label = label

\* Faulty variant: the entry of a label already present is replaced.
AddEntryReplace(dict, label, obj) ==
    IF HasLabel(dict, label)
    THEN [exc |-> "none",
          dict |-> [i \in DOMAIN dict |->
                      IF dict[i].label = label THEN [label |-> label, obj |-> obj]
                      ELSE dict[i]]]
    ELSE [exc |-> "none", dict |-> Append(dict, [label |-> label, obj |-> obj])]

\* add_ebands / add_edos: a label already present raises ValueError and the
\* dict is left as it was; otherwise the entry is appended.
AddEntry(dict, label, obj) ==
    IF HasLabel(dict, label)
    THEN [exc |-> "ValueError", dict |-> dict]
    ELSE [exc |-> "none", dict |-> Append(dict, [label |-> label, obj |-> obj])]

add_ebands ==
    /\ \E label \in Labels, obj \in PlotObjects :
         LET r == AddEntry(ebands_dict, label, obj)
         IN /\ ebands_dict' = r.dict
            /\ plot_call' = Ref([plotter |-> "ebands", label |-> label, obj |-> obj])
            /\ plot_exc' = r.exc
            /\ added' = IF r.exc = "none"
                        THEN [added EXCEPT !.ebands = @ \cup {label}] ELSE added
    /\ UNCHANGED edos_dict
    /\ UNCHANGED <<ddkfile, reader>>
    /\ UNCHANGED analyzer_vars

add_edos ==
    /\ \E label \in Labels, obj \in PlotObjects :
         LET r == AddEntry(edos_dict, label, obj)
         IN /\ edos_dict' = r.dict
            /\ plot_call' = Ref([plotter |-> "edos", label |-> label, obj |-> obj])
            /\ plot_exc' = r.exc
            /\ added' = IF r.exc = "none"
                        THEN [added EXCEPT !.edos = @ \cup {label}] ELSE added
    /\ UNCHANGED ebands_dict
    /\ UNCHANGED <<ddkfile, reader>>
    /\ UNCHANGED analyzer_vars

Init ==
    /\ pc = "start"
    /\ ddk_paths = <<>>
    /\ ddks = <<None, None, None>>
    /\ errors = <<>>
    /\ exc = "none"
    /\ analyzer = None
    /\ call = None
    /\ result = None
    /\ ddkfile = None
    /\ reader = None
    /\ ebands_dict = <<>>
    /\ edos_dict = <<>>
    /\ plot_call = None
    /\ plot_exc = "none"
    /\ added = [ebands |-> {}, edos |-> {}]

Next ==
    \/ Construct
    \/ GetDoses

Spec == Init /\ [][Next]_vars

NextDdkFile == OpenDdkFile

SpecDdkFile == Init /\ [][NextDdkFile]_vars

NextDdkReader == OpenDdkReader

SpecDdkReader == Init /\ [][NextDdkReader]_vars

NextPlotter ==
    \/ add_ebands
    \/ add_edos

SpecPlotter == Init /\ [][NextPlotter]_vars


\* ================================================================= claims

\* Every path opens as a DdkFile.
Readable(paths) == \A i \in DOMAIN paths : ~DdkReaderRaises(paths[i])

\* The directions of the files of a list.
Idirs(paths) == {DdkIdir(paths[i].pertcase) : i \in DOMAIN paths}

\* Three files, one per direction.
ThreeDirections(paths) == Len(paths) = NDirs /\ Idirs(paths) = 1..NDirs

\* The files of a list agree on attribute a.
InputAgreesOn(paths, a) ==
    \A i, j \in DOMAIN paths : paths[i].nc[a] = paths[j].nc[a]

InputAgrees(paths) ==
    \A n \in DOMAIN CheckedAttrs : InputAgreesOn(paths, CheckedAttrs[n])

\* C1: construction succeeds only if the three input files share structure,
\* k-point set (kptopt, k-point list) and nsppol, nspden, nspinor; when three
\* files that open differ in any of these, construction raises ValueError
\* and no analyzer exists.
C1_ConstructionNeedsAgreement ==
    /\ (pc = "constructed" /\ Len(ddk_paths) = NDirs) => InputAgrees(ddk_paths)
    /\ pc = "constructed" =>
          /\ analyzer # None
          /\ \A i \in 1..NDirs : ddks[i] # None
          /\ \A i \in 2..NDirs, n \in DOMAIN CheckedAttrs :
                Attr(Deref(ddks[i]), CheckedAttrs[n]) = Attr(Deref(ddks[1]), CheckedAttrs[n])
    /\ (pc # "start" /\ Len(ddk_paths) = NDirs /\ Readable(ddk_paths)
            /\ ~InputAgrees(ddk_paths))
          => (pc = "failed" /\ exc = "ValueError" /\ analyzer = None)

\* C1 witness: three files, one per direction, that differ: ValueError.
C1_Witness ==
    /\ pc = "failed"
    /\ ThreeDirections(ddk_paths)
    /\ Readable(ddk_paths)
    /\ ~InputAgrees(ddk_paths)
    /\ exc = "ValueError"
    /\ analyzer = None

\* The list paths reordered by the permutation p of its indices.
Reordered(paths, p) == [i \in DOMAIN paths |-> paths[p[i]]]

\* C2: for three files with the three distinct directions, every order of
\* ddk_paths gives the same ddks list, with idir = i + 1 at position i
\* (0-based), and the same outcome.
C2_OrderDoesNotMatter ==
    (pc # "start" /\ ThreeDirections(ddk_paths) /\ Readable(ddk_paths)) =>
        /\ \A i \in 1..NDirs : ddks[i] # None /\ Deref(ddks[i]).idir = i
        /\ \A p \in Permutations(1..NDirs) :
              LET r == AnalyzerInit(Reordered(ddk_paths, p))
              IN /\ r.ddks = ddks
                 /\ r.errors = errors
                 /\ r.analyzer = analyzer
                 /\ (r.exc = "none") <=> (pc = "constructed")
                 /\ pc = "failed" => r.exc = exc

\* C2 witness: the files are given in an order other than idir = 1, 2, 3 and
\* the analyzer is constructed.
C2_Witness ==
    /\ pc = "constructed"
    /\ ThreeDirections(ddk_paths)
    /\ DdkIdir(ddk_paths[1].pertcase) = 3
    /\ DdkIdir(ddk_paths[2].pertcase) = 1
    /\ \A i \in 1..NDirs : Deref(ddks[i]).idir = i

\* C3: when the files (all of which open) do not cover the three directions,
\* construction raises ValueError "Cannot find 3 DDK files with different
\* idir.", and no consistency comparison has been evaluated: no ebands was
\* read and no other line is in the message.
C3_MissingDirectionFirst ==
    (pc # "start" /\ Readable(ddk_paths) /\ Idirs(ddk_paths) # 1..NDirs) =>
        /\ pc = "failed"
        /\ exc = "ValueError"
        /\ errors = <<"Cannot find 3 DDK files with different idir.">>
        /\ analyzer = None
        /\ \E i \in 1..NDirs : ddks[i] = None
        /\ \A i \in 1..NDirs : ddks[i] # None => ~Deref(ddks[i]).ebands

\* C3 witness: three files, two of them along the same direction, that also
\* differ in an attribute the consistency check compares.
C3_Witness ==
    /\ pc = "failed"
    /\ Len(ddk_paths) = NDirs
    /\ Readable(ddk_paths)
    /\ Cardinality(Idirs(ddk_paths)) = 2
    /\ ~InputAgrees(ddk_paths)
    /\ errors = <<"Cannot find 3 DDK files with different idir.">>

\* The file of a list along direction d (the last one, which the loop keeps).
FileAlong(paths, d) ==
    LET last == CHOOSE i \in DOMAIN paths :
                    /\ DdkIdir(paths[i].pertcase) = d
                    /\ \A j \in DOMAIN paths : DdkIdir(paths[j].pertcase) = d => j <= i
    IN paths[last]

\* The idir = 2 or idir = 3 file differs from the idir = 1 file on a.
Mismatch(paths, a) ==
    \E d \in 2..NDirs : FileAlong(paths, d).nc[a] # FileAlong(paths, 1).nc[a]

\* The lines of the message, one per attribute, in the order of the claim.
MismatchLines ==
    << <<"structure", "Structures in DDK files do not agree with each other.">>,
       <<"kptopt", "Found different values of kptopt.">>,
       <<"kpoints", "Found different list of k-kpoints.">>,
       <<"nsppol", "Found different value of nsppol">>,
       <<"nspden", "Found different value of nspden">>,
       <<"nspinor", "Found different value of nspinor">> >>

RECURSIVE ExpectedLines(_, _)
ExpectedLines(paths, n) ==
    IF n > Len(MismatchLines) THEN <<>>
    ELSE (IF Mismatch(paths, MismatchLines[n][1]) THEN <<MismatchLines[n][2]>> ELSE <<>>)
         \o ExpectedLines(paths, n + 1)

\* C10: when the files cover the three directions, the ValueError carries one
\* line for each attribute among structure, kptopt, k-point list, nsppol,
\* nspden, nspinor on which the idir = 2 or idir = 3 file differs from the
\* idir = 1 file, in that order; it is raised iff at least one differs, and
\* the dimensions are assigned only when none differs.
C10_AllMismatchesReported ==
    (pc # "start" /\ Readable(ddk_paths) /\ Idirs(ddk_paths) = 1..NDirs) =>
        /\ errors = ExpectedLines(ddk_paths, 1)
        /\ (pc = "failed" /\ exc = "ValueError") <=> (ExpectedLines(ddk_paths, 1) # <<>>)
        /\ pc = "constructed" <=> (ExpectedLines(ddk_paths, 1) = <<>>)
        /\ analyzer # None <=> (ExpectedLines(ddk_paths, 1) = <<>>)
        /\ analyzer # None =>
              LET f == FileAlong(ddk_paths, 1)
                  an == Deref(analyzer)
              IN /\ an.nsppol = f.nc.nsppol
                 /\ an.nband = MBand
                 /\ an.nkpt = Len(Weights(f.nc.kpoints))
                 /\ an.weights = Weights(f.nc.kpoints)
                 /\ an.eigens = Eigens(f)

\* C10 witness: a ValueError with more than one line.
C10_Witness ==
    /\ pc = "failed"
    /\ Readable(ddk_paths)
    /\ Idirs(ddk_paths) = 1..NDirs
    /\ exc = "ValueError"
    /\ Len(errors) >= 2
    /\ errors[1] = "Found different values of kptopt."

\* C9: for every pertcase >= 1 a DdkFile has idir in {1, 2, 3}, ipert >= 1 and
\* pertcase = 3 * (ipert - 1) + idir, and no other pertcase decodes to the
\* same (ipert, idir).
C9_PertcaseDecoding ==
    (ddkfile # None /\ Deref(ddkfile).exc = "none") =>
        LET ddk == Deref(Deref(ddkfile).ddk)
            pertcase == Deref(ddkfile).path.pertcase
        IN /\ ddk.idir \in {1, 2, 3}
           /\ ddk.ipert >= 1
           /\ pertcase = 3 * (ddk.ipert - 1) + ddk.idir
           /\ \A q \in 1..MaxOpenPertcase :
                 (DdkFileInit([nc |-> RefNc, pertcase |-> q]).idir = ddk.idir
                    /\ DdkFileInit([nc |-> RefNc, pertcase |-> q]).ipert = ddk.ipert)
                 => q = pertcase

\* C9 witness: an open file whose pertcase is a multiple of 3 beyond the
\* first perturbation.
C9_Witness ==
    /\ ddkfile # None
    /\ Deref(ddkfile).exc = "none"
    /\ Deref(ddkfile).path.pertcase = 9
    /\ Deref(Deref(ddkfile).ddk).idir = 3
    /\ Deref(Deref(ddkfile).ddk).ipert = 3

\* |v(spin, k, band)|, the modulus of the group velocity read from the three
\* files.
vmod(spin, k, band) == spin + k + band

\* The weighted superposition of gaussians centered at the eigenvalues.
Superposition(an, spin, mesh, width) ==
    [i \in 1..Len(mesh) |->
        SumOver([skb \in DOMAIN an.eigens |->
                    IF skb[1] = spin
                    THEN an.weights[skb[2]] * vmod(skb[1], skb[2], skb[3])
                            * gaussian(mesh[i], width, an.eigens[skb])
                    ELSE 0],
                DOMAIN an.eigens)]

\* A get_doses call with method gaussian on normalized weights has ended.
GaussianCallDone ==
    /\ pc = "constructed"
    /\ call # None
    /\ Deref(call).method = "gaussian"
    /\ check_weights(Deref(analyzer).weights)

\* C4: for method gaussian get_doses completes and returns edos, vdos and
\* vdos_spin, where vdos_spin[spin] is the sum over k-points and bands of
\* weight(k) * |v(spin, k, b)| * gaussian(mesh, width, center = eigens[spin, k, b]).
C4_GaussianDosesReturned ==
    GaussianCallDone =>
        /\ exc = "none"
        /\ result # None
        /\ DOMAIN Deref(result) = {"edos", "vdos", "vdos_spin"}
        /\ \A spin \in 1..Deref(analyzer).nsppol :
              Deref(result).vdos_spin[spin].values =
                  Superposition(Deref(analyzer), spin, Deref(result).vdos_spin[spin].mesh,
                                Deref(call).width)

\* C8: the total is 2 times the spin-0 values when nsppol = 1 and the sum of
\* the two spins when nsppol = 2; vdos_spin has nsppol entries on the mesh of
\* edos.
C8_TotalFromSpin ==
    GaussianCallDone =>
        /\ exc = "none"
        /\ result # None
        /\ Len(Deref(result).vdos_spin) = Deref(analyzer).nsppol
        /\ \A spin \in 1..Deref(analyzer).nsppol :
              Deref(result).vdos_spin[spin].mesh = Deref(Deref(result).edos).mesh
        /\ \A i \in DOMAIN Deref(result).vdos.mesh :
              Deref(result).vdos.values[i] =
                  IF Deref(analyzer).nsppol = 1
                  THEN 2 * Deref(result).vdos_spin[1].values[i]
                  ELSE Deref(result).vdos_spin[1].values[i]
                         + Deref(result).vdos_spin[2].values[i]

\* C6 as stated: any method other than gaussian fails with
\* NotImplementedError, from get_edos and from get_doses, and nothing is
\* returned.
C6_OtherMethodNotImplemented ==
    (pc = "constructed" /\ call # None /\ Deref(call).method # "gaussian") =>
        /\ exc = "NotImplementedError"
        /\ result = None
        /\ get_edos(Deref(analyzer), Deref(call).method, Deref(call).step,
                    Deref(call).width).exc = "NotImplementedError"

\* C6 amended: when the k-point weights sum to one, any method other than
\* gaussian fails with NotImplementedError, from get_edos and from get_doses,
\* and nothing is returned; when they do not, the call fails with the
\* ValueError of check_weights.
C6_OtherMethodNotImplementedOnMesh ==
    (pc = "constructed" /\ call # None /\ Deref(call).method # "gaussian") =>
        LET an == Deref(analyzer)
            edos == get_edos(an, Deref(call).method, Deref(call).step, Deref(call).width)
        IN /\ result = None
           /\ edos.edos = None
           /\ check_weights(an.weights) =>
                 (exc = "NotImplementedError" /\ edos.exc = "NotImplementedError")
           /\ ~check_weights(an.weights) =>
                 (exc = "ValueError" /\ edos.exc = "ValueError")

\* C6 witness: tetrahedron asked of an analyzer on a k-mesh.
C6_Witness ==
    /\ pc = "constructed"
    /\ call # None
    /\ Deref(call).method = "tetrahedron"
    /\ check_weights(Deref(analyzer).weights)
    /\ exc = "NotImplementedError"
    /\ result = None

Entries(plotter) == IF plotter = "ebands" THEN ebands_dict ELSE edos_dict

NoDuplicateLabel(dict) ==
    \A i, j \in DOMAIN dict : dict[i].label = dict[j].label => i = j

\* C7: a plotter never holds two entries with the same label, and holds as
\* many entries as distinct labels were accepted; adding a label already
\* present raises ValueError and leaves the entries unchanged.
C7_PlotterLabelsUnique ==
    /\ [](/\ NoDuplicateLabel(ebands_dict)
          /\ NoDuplicateLabel(edos_dict)
          /\ Len(ebands_dict) = Cardinality(added.ebands)
          /\ Len(edos_dict) = Cardinality(added.edos)
          /\ {ebands_dict[i].label : i \in DOMAIN ebands_dict} = added.ebands
          /\ {edos_dict[i].label : i \in DOMAIN edos_dict} = added.edos)
    /\ [][/\ plot_call' # None
          /\ LET c == Deref(plot_call')
                 old == IF c.plotter = "ebands" THEN ebands_dict ELSE edos_dict
                 new == IF c.plotter = "ebands" THEN ebands_dict' ELSE edos_dict'
             IN IF HasLabel(old, c.label)
                THEN plot_exc' = "ValueError" /\ ebands_dict' = ebands_dict
                        /\ edos_dict' = edos_dict /\ added' = added
                ELSE plot_exc' = "none"
                        /\ new = Append(old, [label |-> c.label, obj |-> c.obj])]_vars

\* C7 witness: a label already present was refused, with another object.
C7_Witness ==
    /\ plot_call # None
    /\ plot_exc = "ValueError"
    /\ Deref(plot_call).plotter = "ebands"
    /\ Len(ebands_dict) = 2
    /\ \E i \in DOMAIN ebands_dict :
          /\ ebands_dict[i].label = Deref(plot_call).label
          /\ ebands_dict[i].obj # Deref(plot_call).obj

\* C11: DdkReader construction succeeds only when every (spin, k-point)
\* entry of nband_sk is the same number of bands, and mband is then that
\* number; if any entry differs from nband_sk[0, 0] it raises
\* NotImplementedError and mband is not set.
C11_UniformBandsOrNotImplemented ==
    reader # None =>
        LET r == Deref(reader)
            uniform == \A sk, tl \in DOMAIN r.nband_sk : r.nband_sk[sk] = r.nband_sk[tl]
        IN /\ r.exc = "none" <=> uniform
           /\ r.exc = "none" =>
                 /\ r.mband # None
                 /\ \A sk \in DOMAIN r.nband_sk : r.nband_sk[sk] = Deref(r.mband)
           /\ (\E sk \in DOMAIN r.nband_sk : r.nband_sk[sk] # r.nband_sk[<<1, 1>>]) =>
                 (r.exc = "NotImplementedError" /\ r.mband = None)
           /\ r.exc \in {"none", "NotImplementedError"}

\* C11 witness: two spins, and only one entry of the second spin has another
\* number of bands: NotImplementedError, mband not set.
C11_Witness ==
    /\ reader # None
    /\ Deref(reader).exc = "NotImplementedError"
    /\ Deref(reader).mband = None
    /\ DOMAIN Deref(reader).nband_sk = (1..2) \X (1..2)
    /\ Deref(reader).nband_sk[<<1, 1>>] = 2
    /\ Deref(reader).nband_sk[<<1, 2>>] = 2
    /\ Deref(reader).nband_sk[<<2, 1>>] = 1
    /\ Deref(reader).nband_sk[<<2, 2>>] = 2

====
